---- MODULE Spec2Model ----
(***************************************************************************)
(* gmail-to-sheets: the sync pipeline of src/src/main.py with its three    *)
(* collaborators (Gmail, Sheets, the state file).  One run of main() is a  *)
(* sequence of steps, one per collaborator call attempt; the mailbox       *)
(* changes under it (mail arrives, the user reads mail).                   *)
(***************************************************************************)
EXTENDS Naturals, Sequences, FiniteSets, TLC

VARIABLES
    config,            \* config.py: SPREADSHEET_ID, SUBJECT_FILTER; and the page size
    label,             \* the mailbox: message id -> "absent" | "UNREAD" | "READ"
    file,              \* state.json on disk
    sheet,             \* rows of the destination tab, in order
    now,               \* the clock read by datetime.utcnow(): the number of runs started
    pc,                \* position of main()
    rc,                \* main()'s return value
    state,             \* main: state
    unread_ids,        \* main: unread_ids
    processed_ids,     \* main: processed_ids
    new_ids,           \* main: new_ids
    idx,               \* main: position of the for loops (fetch loop, mark loop)
    rows,              \* main: rows
    ids_to_mark_read,  \* main: ids_to_mark_read
    attempt,           \* tenacity: failed attempts so far of the call in progress
    file0,             \* state.json as it was when this run started
    log,               \* what this run did: calls made and errors logged
    prev,              \* what the previous run did
    call               \* should_skip_subject called by itself: argument and return value

vars == <<config, label, file, sheet, now, pc, rc, state, unread_ids, processed_ids,
          new_ids, idx, rows, ids_to_mark_read, attempt, file0, log, prev, call>>

----------------------------------------------------------------------------
(* Bounds of the model *)

\* longest subject and longest filter given to should_skip_subject by itself
MaxSubjectLen == 3
MaxFilterLen == 2

\* number of runs of main() in a behaviour
MaxRuns == 2

\* the message ids the mailbox can ever hold; the listing reports them in this order
ListOrder == <<"A", "B", "C">>
Msgs == {ListOrder[i] : i \in DOMAIN ListOrder}

\* the Subject header of each message (strings that the program searches or
\* lower-cases are sequences of characters)
SubjectOf(m) ==
    CASE m = "A" -> <<"t", "x">>
      [] m = "B" -> <<"x">>
      [] OTHER   -> <<"x", "T">>

\* the Date header of each message: well-formed, malformed, or (B) no header
DateOf(m) ==
    CASE m = "A" -> "Mon, 02 Nov 2026 10:00:00 +0000"
      [] OTHER   -> "yesterday"

\* the configurations a behaviour starts from
SpreadsheetIds == {<<>>, <<"REPLACE_WITH", "_ID">>, <<"114n">>}
SubjectFilters == {<<>>, <<"T">>}

\* main() asks for one page of max_results=100 ids.  The page is scaled to the
\* three-message mailbox: a page the unread mail can exceed, and one it cannot.
PageSizes == {2, 3}

----------------------------------------------------------------------------
(* Program constants *)

\* @retry(stop=stop_after_attempt(3), ...)
stop_after_attempt == 3

\* Python's None.  Strings are sequences of one-character strings, so this
\* sequence is no string: None and "" are told apart
None == <<"None">>

----------------------------------------------------------------------------
(* Pure helpers *)

Range(s) == {s[i] : i \in DOMAIN s}

Take(s, n) == SubSeq(s, 1, IF Len(s) < n THEN Len(s) ELSE n)

\* str.lower(), one character
LowerChar(c) ==
    CASE c = "T" -> "t"
      [] c = "X" -> "x"
      [] c = "F" -> "f"
      [] c = "S" -> "s"
      [] c = "D" -> "d"
      [] c = "U" -> "u"
      [] c = "B" -> "b"
      [] c = "J" -> "j"
      [] c = "E" -> "e"
      [] c = "C" -> "c"
      [] OTHER   -> c

lower(s) == [i \in DOMAIN s |-> LowerChar(s[i])]

\* Python's `needle in hay` on strings
Contains(needle, hay) ==
    \E k \in 0..Len(hay) :
        /\ k + Len(needle) <= Len(hay)
        /\ SubSeq(hay, k + 1, k + Len(needle)) = needle

\* Python's truth value of an Optional[str]: None and "" are false
Falsy(v) == v = None \/ v = <<>>

\* Python's `v or d`
Or(v, d) == IF Falsy(v) THEN d ELSE v

\* mutant: the filter is matched as written (no .lower())
should_skip_subject_CaseSensitive(subject) ==
    IF Falsy(config.SUBJECT_FILTER)
    THEN FALSE
    ELSE ~Contains(config.SUBJECT_FILTER, Or(subject, <<>>))

\* main.py: should_skip_subject
should_skip_subject(subject) ==
    IF Falsy(config.SUBJECT_FILTER)
    THEN FALSE
    ELSE ~Contains(lower(config.SUBJECT_FILTER), lower(Or(subject, <<>>)))

\* mutant: only the empty id is refused
BadSpreadsheetId_OnlyEmpty(id) == id = <<>>

\* main.py: the configuration check at the top of main()
BadSpreadsheetId(id) == id = <<>> \/ Contains(<<"REPLACE_WITH">>, id)

\* the Gmail message resource of id m (format=full): the sender of a message is
\* named after its id; the body is kept as the text its payload extracts to
Message(m) ==
    [id |-> m,
     payload |->
        [headers |->
            <<[name |-> <<"F", "r", "o", "m">>, value |-> m],
              [name |-> <<"S", "U", "B", "J", "E", "C", "T">>, value |-> SubjectOf(m)]>>
            \o (IF m = "B" THEN <<>>
                           ELSE <<[name |-> <<"D", "a", "t", "e">>, value |-> DateOf(m)]>>),
         body |-> "body"]]

\* email_parser._extract_header: the first header of that name, whatever the case
extract_header(headers, name) ==
    LET hits == SelectSeq(headers, LAMBDA h : lower(h.name) = lower(name))
    IN  IF hits = <<>> THEN "" ELSE hits[1].value

\* parsedate_to_datetime(date_header).isoformat(), "" when the header does not parse
date_iso(date_header) ==
    IF date_header = "Mon, 02 Nov 2026 10:00:00 +0000"
    THEN "2026-11-02T10:00:00+00:00"
    ELSE ""

\* email_parser.parse_message
parse_message(message) ==
    LET headers == message.payload.headers
    IN  [id |-> message.id,
         from |-> extract_header(headers, <<"F", "r", "o", "m">>),
         subject |-> extract_header(headers, <<"S", "u", "b", "j", "e", "c", "t">>),
         date |-> date_iso(extract_header(headers, <<"D", "a", "t", "e">>)),
         body |-> message.payload.body]

\* main.py: the row built from a parsed message
Row(parsed) == <<parsed.from, parsed.subject, parsed.date, parsed.body>>

\* gmail_service.fetch_unread_message_ids: one page of
\* messages.list(labelIds=INBOX, q=is:unread, maxResults=n)
fetch_unread_message_ids(n) == Take(SelectSeq(ListOrder, LAMBDA m : label[m] = "UNREAD"), n)

\* the unread messages of INBOX
Unread == {m \in Msgs : label[m] = "UNREAD"}

\* main.py: load_state
EmptyState == [processed_ids |-> {}, last_run |-> None]
load_state_from(f) ==
    IF f.kind = "json"
    THEN [processed_ids |-> f.processed_ids, last_run |-> f.last_run]
    ELSE EmptyState
load_state == load_state_from(file)

\* the state this run loaded when it started
load0 == load_state_from(file0)

\* mutant: the listing is not de-duplicated against the processed ids
NewIds_NoDedup(unread, processed) == unread

\* main.py: new_ids = [mid for mid in unread_ids if mid not in processed_ids]
NewIds(unread, processed) == SelectSeq(unread, LAMBDA m : m \notin processed)

\* mutant: the processed ids become the ids of the batch (assignment for update)
UpdateProcessed_Replace(processed, ids) == Range(ids)

\* mutant: the processed ids are not updated
UpdateProcessed_Not(processed, ids) == processed

\* mutant: only the ids that were marked read are recorded
UpdateProcessed_OnlyMarked(processed, ids) == processed \cup (Range(ids) \ log.mark_failed)

\* main.py: processed_ids.update(ids_to_mark_read)
UpdateProcessed(processed, ids) == processed \cup Range(ids)

\* datetime.utcnow().isoformat()
isoformat(t) == <<ToString(t)>>

\* mutant: with nothing to append main() returns at once, before the save
AfterLoop_ReturnsEarly(rs) == IF rs # <<>> THEN "append" ELSE "done"

\* where main() goes when the fetch loop is over: `if rows:` ... `else:`
AfterLoop(rs) == IF rs # <<>> THEN "append" ELSE "finalize"

\* what a run has done so far:
\*   inbox               the unread messages of the mailbox when the run started
\*   abort               the step that made main() return 1, or "none"
\*   auth_called         authenticate_gmail was called
\*   list_called         fetch_unread_message_ids was attempted
\*   fetch_failed        the ids skipped because get_message gave up
\*   source_unavailable  those of them whose last error was a transport or auth error
\*   filtered            the ids skipped by the subject filter
\*   append_calls        the attempts of append_rows
\*   appended            the rows append_rows wrote
\*   mark_calls          the ids mark_as_read was attempted for
\*   mark_failed         the ids mark_as_read gave up on
\*   saves               the calls of save_state
EmptyLog == [inbox |-> {}, abort |-> "none", auth_called |-> FALSE, list_called |-> FALSE,
             fetch_failed |-> {}, source_unavailable |-> {},
             filtered |-> {}, append_calls |-> 0, appended |-> <<>>,
             mark_calls |-> {}, mark_failed |-> {}, saves |-> 0]

MissingFile == [kind |-> "missing", processed_ids |-> {}, last_run |-> None]

\* the summary kept of a finished run
NoPrev == [ran |-> FALSE, rc |-> 0, abort |-> "none", loaded |-> {}, inbox |-> {},
           unread_ids |-> <<>>, new_ids |-> <<>>, batch |-> <<>>, fetch_failed |-> {},
           filtered |-> {}]

\* should_skip_subject has not been called by itself
NoCall == [made |-> FALSE, subject |-> <<>>, ret |-> FALSE]

----------------------------------------------------------------------------
\* nothing has run yet: no mail, no sheet rows, no readable state file
Fresh ==
    /\ label = [m \in Msgs |-> "absent"]
    /\ file \in {[MissingFile EXCEPT !.kind = k] : k \in {"missing", "corrupt"}}
    /\ sheet = <<>>
    /\ now = 0
    /\ pc = "idle"
    /\ rc = 0
    /\ state = EmptyState
    /\ unread_ids = <<>>
    /\ processed_ids = {}
    /\ new_ids = <<>>
    /\ idx = 1
    /\ rows = <<>>
    /\ ids_to_mark_read = <<>>
    /\ attempt = 0
    /\ file0 = file
    /\ log = EmptyLog
    /\ prev = NoPrev
    /\ call = NoCall

Init ==
    /\ config \in [SPREADSHEET_ID : SpreadsheetIds, SUBJECT_FILTER : SubjectFilters,
                    max_results : PageSizes]
    /\ Fresh

----------------------------------------------------------------------------
(* The mailbox changes under the program *)

env == <<config, file, sheet, now>>
locals == <<state, unread_ids, processed_ids, new_ids, idx, rows, ids_to_mark_read>>

\* main() reads the labels in one place, the listing, and get_message does not
\* depend on them: a change of the mailbox during a run has the effect of the same
\* change made before the run (when the listing had not seen it) or after it, so
\* the changes are taken between runs.

\* a new message arrives in INBOX, unread
Arrive(m) ==
    /\ pc = "idle"
    /\ label[m] = "absent"
    /\ label' = [label EXCEPT ![m] = "UNREAD"]
    /\ UNCHANGED <<env, call, locals, pc, rc, attempt, file0, log, prev>>

\* the user opens an unread message
UserRead(m) ==
    /\ pc = "idle"
    /\ label[m] = "UNREAD"
    /\ label' = [label EXCEPT ![m] = "READ"]
    /\ UNCHANGED <<env, call, locals, pc, rc, attempt, file0, log, prev>>

----------------------------------------------------------------------------
(* main() *)

\* mutant: the retry has no stop condition
LastAttempt_Never == FALSE

\* tenacity: the attempt in progress was the last one allowed
LastAttempt == attempt + 1 >= stop_after_attempt

\* mutant: load_state lets the JSON error out, and main() dies of it
Start_DiesOfCorruptState ==
    /\ pc = "idle"
    /\ now < MaxRuns
    /\ now' = now + 1
    /\ file0' = file
    /\ IF BadSpreadsheetId(config.SPREADSHEET_ID)
       THEN /\ pc' = "done"
            /\ rc' = 1
            /\ state' = state
            /\ log' = [EmptyLog EXCEPT !.inbox = Unread, !.abort = "config"]
       ELSE IF file.kind = "corrupt"
       THEN /\ pc' = "done"
            /\ rc' = 1
            /\ state' = state
            /\ log' = [EmptyLog EXCEPT !.inbox = Unread, !.abort = "JSONDecodeError"]
       ELSE /\ pc' = "auth"
            /\ rc' = rc
            /\ state' = load_state
            /\ log' = [EmptyLog EXCEPT !.inbox = Unread]
    /\ UNCHANGED <<config, call, label, file, sheet, unread_ids, processed_ids, new_ids, idx,
                   rows, ids_to_mark_read, attempt, prev>>

\* main() is started; an unset SPREADSHEET_ID returns 1 at once, otherwise the
\* state is loaded
Start ==
    /\ pc = "idle"
    /\ now < MaxRuns
    /\ now' = now + 1
    /\ file0' = file
    /\ IF BadSpreadsheetId(config.SPREADSHEET_ID)
       THEN /\ pc' = "done"
            /\ rc' = 1
            /\ state' = state
            /\ log' = [EmptyLog EXCEPT !.inbox = Unread, !.abort = "config"]
       ELSE /\ pc' = "auth"
            /\ rc' = rc
            /\ state' = load_state
            /\ log' = [EmptyLog EXCEPT !.inbox = Unread]
    /\ UNCHANGED <<config, call, label, file, sheet, unread_ids, processed_ids, new_ids, idx,
                   rows, ids_to_mark_read, attempt, prev>>

\* authenticate_gmail() and authenticate_sheets() return
AuthOk ==
    /\ pc = "auth"
    /\ pc' = "list"
    /\ log' = [log EXCEPT !.auth_called = TRUE]
    /\ UNCHANGED <<env, call, label, locals, rc, attempt, file0, prev>>

\* one of them raises
AuthFail ==
    /\ pc = "auth"
    /\ pc' = "done"
    /\ rc' = 1
    /\ log' = [log EXCEPT !.auth_called = TRUE, !.abort = "auth"]
    /\ UNCHANGED <<env, call, label, locals, attempt, file0, prev>>

\* fetch_unread_message_ids returns; main() removes the processed ids
FetchUnreadOk ==
    /\ pc = "list"
    /\ unread_ids' = fetch_unread_message_ids(config.max_results)
    /\ processed_ids' = state.processed_ids
    /\ new_ids' = NewIds(unread_ids', processed_ids')
    /\ idx' = 1
    /\ attempt' = 0
    /\ pc' = IF new_ids' = <<>> THEN AfterLoop(rows) ELSE "fetch"
    /\ log' = [log EXCEPT !.list_called = TRUE]
    /\ UNCHANGED <<env, call, label, state, rows, ids_to_mark_read, rc, file0, prev>>

\* an attempt of fetch_unread_message_ids raises: retried, or main() returns 1
FetchUnreadFail ==
    /\ pc = "list"
    /\ IF LastAttempt
       THEN /\ pc' = "done"
            /\ rc' = 1
            /\ attempt' = 0
            /\ log' = [log EXCEPT !.list_called = TRUE, !.abort = "list"]
       ELSE /\ attempt' = attempt + 1
            /\ log' = [log EXCEPT !.list_called = TRUE]
            /\ UNCHANGED <<pc, rc>>
    /\ UNCHANGED <<env, call, label, locals, file0, prev>>

\* where the fetch loop goes after the message at idx
NextFetch(rs) == IF idx + 1 > Len(new_ids) THEN AfterLoop(rs) ELSE "fetch"

\* mutant: a message failing the subject filter is still queued for mark_as_read
SkipFiltered_StillMarked(msg_id) ==
    /\ log' = [log EXCEPT !.filtered = @ \cup {msg_id}]
    /\ ids_to_mark_read' = Append(ids_to_mark_read, msg_id)
    /\ UNCHANGED <<rows, processed_ids>>

\* mutant: a message failing the subject filter is dismissed for good
SkipFiltered_Dismiss(msg_id) ==
    /\ log' = [log EXCEPT !.filtered = @ \cup {msg_id}]
    /\ processed_ids' = processed_ids \cup {msg_id}
    /\ UNCHANGED <<rows, ids_to_mark_read>>

\* main.py: a message failing the subject filter is logged and skipped
SkipFiltered(msg_id) ==
    /\ log' = [log EXCEPT !.filtered = @ \cup {msg_id}]
    /\ UNCHANGED <<rows, ids_to_mark_read, processed_ids>>

\* mutant: the row is put at the head of the batch
AddToBatch_Front(msg_id, parsed) ==
    /\ rows' = <<Row(parsed)>> \o rows
    /\ ids_to_mark_read' = Append(ids_to_mark_read, msg_id)
    /\ UNCHANGED <<log, processed_ids>>

\* main.py: rows.append(row); ids_to_mark_read.append(msg_id)
AddToBatch(msg_id, parsed) ==
    /\ rows' = Append(rows, Row(parsed))
    /\ ids_to_mark_read' = Append(ids_to_mark_read, msg_id)
    /\ UNCHANGED <<log, processed_ids>>

\* get_message and parse_message return; the subject filter is applied
GetMessageOk ==
    /\ pc = "fetch"
    /\ LET msg_id == new_ids[idx]
           parsed == parse_message(Message(msg_id))
       IN  IF should_skip_subject(parsed.subject)
           THEN SkipFiltered(msg_id)
           ELSE AddToBatch(msg_id, parsed)
    /\ idx' = idx + 1
    /\ attempt' = 0
    /\ pc' = NextFetch(rows')
    /\ UNCHANGED <<env, call, label, state, unread_ids, new_ids, rc, file0, prev>>

\* mutant: the error ends the loop (break for continue)
SkipMessage_Break(kind) ==
    /\ log' = [log EXCEPT !.fetch_failed = @ \cup {new_ids[idx]},
                          !.source_unavailable =
                              IF kind = "SourceUnavailable" THEN @ \cup {new_ids[idx]} ELSE @]
    /\ idx' = Len(new_ids) + 1
    /\ pc' = AfterLoop(rows)
    /\ rc' = rc

\* mutant: a transport or auth error ends the run
SkipMessage_AbortWhenUnavailable(kind) ==
    /\ log' = [log EXCEPT !.fetch_failed = @ \cup {new_ids[idx]},
                          !.source_unavailable =
                              IF kind = "SourceUnavailable" THEN @ \cup {new_ids[idx]} ELSE @]
    /\ idx' = idx + 1
    /\ pc' = IF kind = "SourceUnavailable" THEN "done" ELSE NextFetch(rows)
    /\ rc' = IF kind = "SourceUnavailable" THEN 1 ELSE rc

\* what main() does when get_message gave up with an error of the given kind:
\* `except Exception`: log, continue
SkipMessage(kind) ==
    /\ log' = [log EXCEPT !.fetch_failed = @ \cup {new_ids[idx]},
                          !.source_unavailable =
                              IF kind = "SourceUnavailable" THEN @ \cup {new_ids[idx]} ELSE @]
    /\ idx' = idx + 1
    /\ pc' = NextFetch(rows)
    /\ rc' = rc

\* an attempt of get_message raises (an HttpError for this message, or a
\* transport or auth error): retried, or the message is skipped
GetMessageFail(kind) ==
    /\ pc = "fetch"
    /\ IF LastAttempt
       THEN /\ SkipMessage(kind)
            /\ attempt' = 0
       ELSE /\ attempt' = attempt + 1
            /\ UNCHANGED <<pc, rc, idx, log>>
    /\ UNCHANGED <<env, call, label, state, unread_ids, processed_ids, new_ids, rows,
                   ids_to_mark_read, file0, prev>>

\* append_rows writes the batch
AppendRowsOk ==
    /\ pc = "append"
    /\ sheet' = sheet \o rows
    /\ log' = [log EXCEPT !.append_calls = @ + 1, !.appended = rows]
    /\ idx' = 1
    /\ attempt' = 0
    /\ pc' = "mark"
    /\ UNCHANGED <<config, call, file, now, label, state, unread_ids, processed_ids, new_ids,
                   rows, ids_to_mark_read, rc, file0, prev>>

\* mutant: the failure of append_rows is logged and main() goes on to mark
AppendAbort_GoesOn ==
    /\ pc' = "mark"
    /\ rc' = rc
    /\ idx' = 1
    /\ UNCHANGED <<file, label, state, processed_ids>>

\* mutant: the abort still records the run in the state file
AppendAbort_SavesLastRun ==
    /\ pc' = "done"
    /\ rc' = 1
    /\ state' = [state EXCEPT !.last_run = isoformat(now)]
    /\ file' = [kind |-> "json", processed_ids |-> state.processed_ids,
                last_run |-> isoformat(now)]
    /\ UNCHANGED <<label, processed_ids, idx>>

\* what main() does when append_rows gave up: log, return 1
AppendAbort ==
    /\ pc' = "done"
    /\ rc' = 1
    /\ UNCHANGED <<file, label, state, processed_ids, idx>>

\* an attempt of append_rows raises: retried, or main() returns 1
AppendRowsFail ==
    /\ pc = "append"
    /\ IF LastAttempt
       THEN /\ AppendAbort
            /\ attempt' = 0
            /\ log' = [log EXCEPT !.append_calls = @ + 1, !.abort = "append"]
       ELSE /\ attempt' = attempt + 1
            /\ log' = [log EXCEPT !.append_calls = @ + 1]
            /\ UNCHANGED <<pc, rc, file, label, state, processed_ids, idx>>
    /\ UNCHANGED <<config, call, sheet, now, unread_ids, new_ids, rows, ids_to_mark_read,
                   file0, prev>>

\* where the mark loop goes after the id at idx
NextMark == IF idx + 1 > Len(ids_to_mark_read) THEN "finalize" ELSE "mark"

\* mark_as_read removes the UNREAD label
MarkOk ==
    /\ pc = "mark"
    /\ label' = [label EXCEPT ![ids_to_mark_read[idx]] = "READ"]
    /\ log' = [log EXCEPT !.mark_calls = @ \cup {ids_to_mark_read[idx]}]
    /\ idx' = idx + 1
    /\ attempt' = 0
    /\ pc' = NextMark
    /\ UNCHANGED <<env, call, state, unread_ids, processed_ids, new_ids, rows, ids_to_mark_read,
                   rc, file0, prev>>

\* mutant: the first id that cannot be marked ends the mark loop
MarkGiveUp_Break ==
    /\ log' = [log EXCEPT !.mark_calls = @ \cup {ids_to_mark_read[idx]},
                          !.mark_failed = @ \cup {ids_to_mark_read[idx]}]
    /\ idx' = Len(ids_to_mark_read) + 1
    /\ pc' = "finalize"

\* what main() does when mark_as_read gave up on an id: `except Exception`:
\* log, and the loop goes on
MarkGiveUp ==
    /\ log' = [log EXCEPT !.mark_calls = @ \cup {ids_to_mark_read[idx]},
                          !.mark_failed = @ \cup {ids_to_mark_read[idx]}]
    /\ idx' = idx + 1
    /\ pc' = NextMark

\* an attempt of mark_as_read raises: retried, or logged and the loop goes on
MarkFail ==
    /\ pc = "mark"
    /\ IF LastAttempt
       THEN /\ MarkGiveUp
            /\ attempt' = 0
       ELSE /\ log' = [log EXCEPT !.mark_calls = @ \cup {ids_to_mark_read[idx]}]
            /\ attempt' = attempt + 1
            /\ UNCHANGED <<pc, idx>>
    /\ UNCHANGED <<env, call, label, state, unread_ids, processed_ids, new_ids, rows,
                   ids_to_mark_read, rc, file0, prev>>

\* mutant: a run with mark failures returns 1
FinalizeReturn_PartialIsFailure == IF log.mark_failed # {} THEN 1 ELSE 0

\* main.py: the `return 0` that ends main()
FinalizeReturn == 0

\* main.py: save_state
save_state(st) == [kind |-> "json", processed_ids |-> st.processed_ids, last_run |-> st.last_run]

\* mutant: the state is saved before last_run is set
Finalize_SavesBeforeStamp ==
    /\ pc = "finalize"
    /\ processed_ids' = IF rows # <<>> THEN UpdateProcessed(processed_ids, ids_to_mark_read)
                                       ELSE processed_ids
    /\ state' = [processed_ids |-> IF rows # <<>> THEN processed_ids' ELSE state.processed_ids,
                 last_run |-> isoformat(now)]
    /\ file' = save_state([state' EXCEPT !.last_run = state.last_run])
    /\ log' = [log EXCEPT !.saves = @ + 1]
    /\ rc' = FinalizeReturn
    /\ pc' = "done"
    /\ UNCHANGED <<config, call, label, sheet, now, unread_ids, new_ids, idx, rows,
                   ids_to_mark_read, attempt, file0, prev>>

\* the end of main(): the processed ids are updated when rows were appended,
\* last_run is set, the state is saved, main() returns 0
Finalize ==
    /\ pc = "finalize"
    /\ processed_ids' = IF rows # <<>> THEN UpdateProcessed(processed_ids, ids_to_mark_read)
                                       ELSE processed_ids
    /\ state' = [processed_ids |-> IF rows # <<>> THEN processed_ids' ELSE state.processed_ids,
                 last_run |-> isoformat(now)]
    /\ file' = save_state(state')
    /\ log' = [log EXCEPT !.saves = @ + 1]
    /\ rc' = FinalizeReturn
    /\ pc' = "done"
    /\ UNCHANGED <<config, call, label, sheet, now, unread_ids, new_ids, idx, rows,
                   ids_to_mark_read, attempt, file0, prev>>

\* the process exits; the next run starts from fresh locals
Exit ==
    /\ pc = "done"
    /\ prev' = [ran |-> TRUE, rc |-> rc, abort |-> log.abort, loaded |-> load0.processed_ids,
                inbox |-> log.inbox, unread_ids |-> unread_ids, new_ids |-> new_ids,
                batch |-> ids_to_mark_read, fetch_failed |-> log.fetch_failed,
                filtered |-> log.filtered]
    /\ pc' = "idle"
    /\ rc' = 0
    /\ state' = EmptyState
    /\ unread_ids' = <<>>
    /\ processed_ids' = {}
    /\ new_ids' = <<>>
    /\ idx' = 1
    /\ rows' = <<>>
    /\ ids_to_mark_read' = <<>>
    /\ attempt' = 0
    /\ log' = EmptyLog
    /\ UNCHANGED <<env, call, label, file0>>

Next ==
    \/ \E m \in Msgs : Arrive(m)
    \/ \E m \in Msgs : UserRead(m)
    \/ Start
    \/ AuthOk
    \/ AuthFail
    \/ FetchUnreadOk
    \/ FetchUnreadFail
    \/ GetMessageOk
    \/ \E kind \in {"MessageFetchError", "SourceUnavailable"} : GetMessageFail(kind)
    \/ AppendRowsOk
    \/ AppendRowsFail
    \/ MarkOk
    \/ MarkFail
    \/ Finalize
    \/ Exit

Spec == Init /\ [][Next]_vars

----------------------------------------------------------------------------
(* should_skip_subject by itself, on every filter and every subject *)

\* the characters of the subjects and filters: a letter in both cases, another letter
Chars == {"t", "T", "x"}

\* the strings of at most n characters
Strings(n) == UNION {[1..k -> Chars] : k \in 0..n}

\* config.SUBJECT_FILTER is a string, "" or None; the rest is as main() finds it
FilterInit ==
    /\ config \in [SPREADSHEET_ID : SpreadsheetIds,
                    SUBJECT_FILTER : Strings(MaxFilterLen) \cup {None},
                    max_results : PageSizes]
    /\ Fresh

\* should_skip_subject(subject) is called and returns
CallShouldSkip(subject) ==
    /\ ~call.made
    /\ call' = [made |-> TRUE, subject |-> subject, ret |-> should_skip_subject(subject)]
    /\ UNCHANGED <<env, label, locals, pc, rc, attempt, file0, log, prev>>

\* the caller drops the result
Return ==
    /\ call.made
    /\ call' = NoCall
    /\ UNCHANGED <<env, label, locals, pc, rc, attempt, file0, log, prev>>

FilterNext ==
    \/ \E subject \in Strings(MaxSubjectLen) \cup {None} : CallShouldSkip(subject)
    \/ Return

FilterSpec == FilterInit /\ [][FilterNext]_vars

----------------------------------------------------------------------------
(* Vocabulary of the properties *)

\* the id of the message a row was built from (the model's senders are the ids)
IdOfRow(row) == row[1]
IdsOf(rs) == {IdOfRow(rs[i]) : i \in DOMAIN rs}

\* the processed ids a state file holds, as a run would load them
Persisted(f) == IF f.kind = "json" THEN f.processed_ids ELSE {}

\* the subject filter, as section 4.4 words it
PassesFilter(m) ==
    \/ config.SUBJECT_FILTER = <<>>
    \/ Contains(lower(config.SUBJECT_FILTER), lower(SubjectOf(m)))

\* this run has its listing
Listed == \/ pc \in {"fetch", "append", "mark", "finalize"}
          \/ pc = "done" /\ log.abort \in {"none", "append"}

----------------------------------------------------------------------------
\* C1 (no duplicate commit): an id that was in the persisted processed-id set when
\* the run started has no row in the batch the run passes to append_rows, nor
\* among the rows it appends, also when the listing still reports it unread.
C1_NoDuplicateCommit ==
    /\ pc = "append" => IdsOf(rows) \cap Persisted(file0) = {}
    /\ IdsOf(log.appended) \cap Persisted(file0) = {}

\* a batch is at append_rows while the listing holds an id already processed
C1_Witness ==
    /\ pc = "append"
    /\ rows # <<>>
    /\ Range(unread_ids) \cap Persisted(file0) # {}

----------------------------------------------------------------------------
\* C2 (atomic commit-then-mark): in a run where append_rows gave up, mark_as_read
\* is called for no id, and the processed-id set, in memory and on disk, is the
\* one the run loaded.
C2_AtomicCommitThenMark ==
    log.abort = "append" =>
        /\ log.mark_calls = {}
        /\ processed_ids = load0.processed_ids
        /\ state.processed_ids = load0.processed_ids
        /\ Persisted(file) = Persisted(file0)

\* append_rows gave up on a batch of two ids, after its three attempts
C2_Witness ==
    /\ log.abort = "append"
    /\ pc = "done"
    /\ log.append_calls = stop_after_attempt
    /\ Len(ids_to_mark_read) = 2

----------------------------------------------------------------------------
\* C3 (a failed append persists nothing): in a run where append_rows gave up the
\* state file is never written, so it is the file the run started from, processed
\* ids and last_run alike; the next run loads the same processed ids, every id of
\* the failed batch that is listed again is a candidate again (the same
\* candidates when the listing is the same), and is in the batch offered to
\* append_rows again unless its fetch fails.
C3_FailedAppendPersistsNothing ==
    /\ log.abort = "append" => (file = file0 /\ log.saves = 0 /\ log.appended = <<>>)
    /\ (prev.ran /\ prev.abort = "append" /\ Listed) =>
        /\ load0.processed_ids = prev.loaded
        /\ \A m \in Range(prev.batch) : m \in Range(unread_ids) => m \in Range(new_ids)
        /\ unread_ids = prev.unread_ids => new_ids = prev.new_ids
        /\ pc = "append" =>
              \A m \in Range(prev.batch) :
                  (m \in Range(unread_ids) /\ m \notin log.fetch_failed)
                      => m \in Range(ids_to_mark_read)

\* the run after a failed append offers the same batch to append_rows again,
\* while the state file still has the last_run of before the failed run
C3_Witness ==
    /\ prev.ran /\ prev.abort = "append"
    /\ pc = "append"
    /\ Len(prev.batch) = 2
    /\ ids_to_mark_read = prev.batch
    /\ file = file0

----------------------------------------------------------------------------
\* C4 (best-effort mark does not block state): when a run that appended a batch
\* has ended, every id of the batch is in the persisted processed-id set,
\* whether its mark_as_read succeeded or gave up.
C4_MarkFailureDoesNotBlockState ==
    (pc = "done" /\ log.appended # <<>>) =>
        /\ IdsOf(log.appended) \subseteq Persisted(file)
        /\ Range(ids_to_mark_read) \subseteq Persisted(file)
        /\ log.mark_failed \subseteq Persisted(file)

\* a run ended with one id of its batch marked read and one whose mark gave up
C4_Witness ==
    /\ pc = "done"
    /\ log.appended # <<>>
    /\ log.mark_failed # {}
    /\ Range(ids_to_mark_read) \ log.mark_failed # {}
    /\ \E m \in log.mark_failed : label[m] = "UNREAD"

----------------------------------------------------------------------------
\* C5 as stated (idempotence): a run that follows a run which returned 0, with
\* no unread message in the mailbox that was not unread there when the earlier
\* run started, appends no row and leaves the processed-id set unchanged.
C5_Idempotence_AsStated ==
    (pc = "done" /\ prev.ran /\ prev.rc = 0 /\ log.inbox \subseteq prev.inbox) =>
        /\ log.appended = <<>>
        /\ Persisted(file) = Persisted(file0)

\* C5 as amended (idempotence): a run that follows a run which returned 0 without
\* skipping a candidate on a fetch error, and whose listing holds no id the
\* earlier listing did not hold, calls append_rows not at all, appends no row
\* and leaves the processed-id set unchanged.
C5_Idempotence ==
    (/\ pc = "done"
     /\ prev.ran /\ prev.rc = 0 /\ prev.fetch_failed = {}
     /\ Range(unread_ids) \subseteq Range(prev.unread_ids)) =>
        /\ log.append_calls = 0
        /\ log.appended = <<>>
        /\ rows = <<>>
        /\ Persisted(file) = Persisted(file0)

\* the second of two such runs has ended with rc 0; the first had committed a
\* batch, and the second listed ids again (an id whose mark gave up, a filtered id)
C5_Witness ==
    /\ pc = "done" /\ rc = 0
    /\ prev.ran /\ prev.rc = 0 /\ prev.fetch_failed = {}
    /\ prev.batch # <<>>
    /\ unread_ids # <<>>
    /\ Range(unread_ids) \cap Range(prev.batch) # {}
    /\ Range(unread_ids) \subseteq Range(prev.unread_ids)

----------------------------------------------------------------------------
\* C6 (filter re-visit): a message skipped by the subject filter is in no row of
\* the batch, is not among the ids to mark, gets no mark_as_read call and is not
\* in the processed-id set, in memory or on disk; and when the next run lists it
\* again it is a candidate again.
C6_FilterRevisit ==
    /\ \A m \in log.filtered :
        /\ m \notin IdsOf(rows) /\ m \notin IdsOf(log.appended)
        /\ m \notin Range(ids_to_mark_read)
        /\ m \notin log.mark_calls
        /\ m \notin processed_ids /\ m \notin state.processed_ids
        /\ m \notin Persisted(file)
    /\ (prev.ran /\ Listed) =>
        \A m \in prev.filtered : m \in Range(unread_ids) => m \in Range(new_ids)

\* a message filtered out by the previous run, which committed another message,
\* is filtered out again by this run
C6_Witness ==
    /\ prev.ran /\ prev.batch # <<>>
    /\ \E m \in prev.filtered : m \in log.filtered
    /\ pc = "done"

----------------------------------------------------------------------------
\* the ids section 4.4 puts in the batch: the listed ids, in the order of the
\* listing, that were not in the loaded processed-id set, whose fetch did not
\* give up and whose subject passes the filter
ExpectedBatch ==
    SelectSeq(unread_ids,
              LAMBDA m : /\ m \notin Persisted(file0)
                         /\ m \notin log.fetch_failed
                         /\ PassesFilter(m))

\* C7 (the batch): from the moment the batch is passed to append_rows, the ids to
\* mark are exactly the expected batch, in the order of the listing; the rows are
\* paired with them one to one, the i-th row built from the i-th id; and a run
\* that ends with 0 leaves the loaded processed ids plus the batch on disk.
C7_BatchIsCandidatesInOrder ==
    /\ pc \in {"append", "mark", "finalize"} \/ (pc = "done" /\ log.abort \in {"none", "append"}) =>
        /\ ids_to_mark_read = ExpectedBatch
        /\ Len(rows) = Len(ids_to_mark_read)
        /\ \A i \in DOMAIN rows : rows[i] = Row(parse_message(Message(ids_to_mark_read[i])))
    /\ pc \in {"mark", "finalize", "done"} /\ log.append_calls > 0 /\ log.abort = "none" =>
        log.appended = rows
    /\ pc = "done" /\ rc = 0 =>
        Persisted(file) = Persisted(file0) \cup Range(ids_to_mark_read)

\* the scenario of section 8: unread = [A,B,C], processed = {B}, no filter, the
\* marks succeed: the batch is [A,C] and the processed ids end as {A,B,C}
C7_Witness ==
    /\ pc = "done" /\ rc = 0
    /\ config.SUBJECT_FILTER = <<>>
    /\ unread_ids = <<"A", "B", "C">>
    /\ Persisted(file0) = {"B"}
    /\ log.mark_failed = {}
    /\ ids_to_mark_read = <<"A", "C">>
    /\ IdsOf(log.appended) = {"A", "C"}
    /\ Persisted(file) = {"A", "B", "C"}

----------------------------------------------------------------------------
\* C8 (a fetch failure skips one id): an id whose fetch gave up is in no row, is
\* not among the ids to mark, gets no mark_as_read call and is not in the
\* processed-id set; the run goes on: when the loop is over every other candidate
\* whose subject passes the filter is in the batch, and the run returns 1 only if
\* append_rows gives up; and when the next run lists the id again it is a
\* candidate again.
C8_FetchFailureSkipsOneId ==
    /\ \A m \in log.fetch_failed :
        /\ m \notin IdsOf(rows) /\ m \notin IdsOf(log.appended)
        /\ m \notin Range(ids_to_mark_read)
        /\ m \notin log.mark_calls
        /\ m \notin processed_ids /\ m \notin state.processed_ids
        /\ m \notin Persisted(file)
    /\ pc \in {"append", "mark", "finalize", "done"} =>
        \A m \in Range(new_ids) :
            (m \notin log.fetch_failed /\ PassesFilter(m)) => m \in Range(ids_to_mark_read)
    /\ (log.fetch_failed # {} /\ pc = "done") => (rc = 1 <=> log.abort = "append")
    /\ (prev.ran /\ Listed) =>
        \A m \in prev.fetch_failed : m \in Range(unread_ids) => m \in Range(new_ids)

\* the fetch of the first candidate gave up and a later candidate was committed
C8_Witness ==
    /\ pc = "done" /\ rc = 0
    /\ Len(new_ids) >= 2
    /\ new_ids[1] \in log.fetch_failed
    /\ log.appended # <<>>

----------------------------------------------------------------------------
----------------------------------------------------------------------------
\* C10 (exit code): when main() is over it has returned 1 if the spreadsheet id
\* was unset, the authentication failed, the listing gave up or append_rows gave
\* up, and 0 otherwise, also when mark_as_read gave up on ids of the batch.
C10_ExitCode ==
    pc = "done" =>
        /\ rc \in {0, 1}
        /\ rc = 1 <=> log.abort \in {"config", "auth", "list", "append"}
        /\ log.abort = "config" <=> BadSpreadsheetId(config.SPREADSHEET_ID)
        /\ log.mark_failed # {} => rc = 0

\* a run has returned 0 although mark_as_read gave up on an id
C10_Witness ==
    /\ pc = "done" /\ rc = 0
    /\ log.mark_failed # {}

----------------------------------------------------------------------------
\* C11 (an unreadable state file is not fatal): a run that finds state.json
\* missing, or not JSON, loads the empty state and goes through the pipeline like
\* any run: it is at one of main()'s steps, no listed id is taken for processed,
\* and it ends only where every run can end (authentication, listing, append, or
\* the final return).
C11_UnreadableStateIsEmpty ==
    (pc # "idle" /\ file0.kind \in {"missing", "corrupt"}
                 /\ ~BadSpreadsheetId(config.SPREADSHEET_ID)) =>
        /\ pc \in {"auth", "list", "fetch", "append", "mark", "finalize", "done"}
        /\ pc # "done" => state = [processed_ids |-> {}, last_run |-> None]
        /\ pc \in {"fetch", "append", "mark", "finalize"} => processed_ids = {}
        /\ Listed => new_ids = unread_ids
        /\ log.abort \in {"none", "auth", "list", "append"}
        /\ (pc = "done" /\ log.abort = "none") => (rc = 0 /\ file.kind = "json")

\* a run that found state.json not to be JSON has committed a batch, saved the
\* state and returned 0
C11_Witness ==
    /\ file0.kind = "corrupt"
    /\ pc = "done" /\ rc = 0
    /\ log.appended # <<>>
    /\ file.kind = "json"
    /\ Persisted(file) = Range(ids_to_mark_read)

----------------------------------------------------------------------------
\* the destination identifier is missing: empty, or still the placeholder
MissingDestination == config.SPREADSHEET_ID \in {<<>>, <<"REPLACE_WITH", "_ID">>}

\* C12 (a missing destination aborts with no side effect): with the spreadsheet
\* id empty or still a placeholder, a started run is over at once with 1 and has
\* called nothing: no authentication, no listing, no fetch, no append, no mark,
\* no save; mailbox, sheet and state file are as the run found them.
C12_BadConfigNoSideEffects ==
    (MissingDestination /\ pc # "idle") =>
        /\ pc = "done" /\ rc = 1 /\ log.abort = "config"
        /\ ~log.auth_called /\ ~log.list_called
        /\ unread_ids = <<>> /\ new_ids = <<>> /\ rows = <<>>
        /\ log.fetch_failed = {} /\ log.filtered = {}
        /\ log.append_calls = 0 /\ log.appended = <<>> /\ sheet = <<>>
        /\ log.mark_calls = {} /\ Unread = log.inbox
        /\ log.saves = 0 /\ file = file0

\* a run with the placeholder id is over while unread mail waits
C12_Witness ==
    /\ config.SPREADSHEET_ID = <<"REPLACE_WITH", "_ID">>
    /\ pc = "done" /\ rc = 1
    /\ Unread # {}
    /\ now = 2

----------------------------------------------------------------------------
\* the last rows of the sheet are the rows this run appended
StillAppended ==
    /\ Len(sheet) >= Len(log.appended)
    /\ SubSeq(sheet, Len(sheet) - Len(log.appended) + 1, Len(sheet)) = log.appended

\* C13 (every id of the batch gets its mark attempt): after a successful append
\* the mark loop attempts the ids of the batch in order, one after the other;
\* when it is over mark_as_read has been attempted for every id of the batch,
\* every id it did not give up on is read, and the appended rows are still in
\* the sheet, whatever ids it gave up on.
C13_MarkEveryIdOfBatch ==
    /\ pc = "mark" =>
        /\ log.appended = rows /\ StillAppended
        /\ {ids_to_mark_read[i] : i \in 1..(idx - 1)} \subseteq log.mark_calls
        /\ log.mark_calls \subseteq {ids_to_mark_read[i] : i \in 1..idx}
    /\ (pc \in {"finalize", "done"} /\ log.appended # <<>>) =>
        /\ log.mark_calls = Range(ids_to_mark_read)
        /\ log.mark_calls = IdsOf(log.appended)
        /\ log.mark_failed \subseteq log.mark_calls
        /\ \A m \in log.mark_calls \ log.mark_failed : label[m] = "READ"
        /\ StillAppended

\* the mark of the first id of a batch gave up, and the second id was marked read
C13_Witness ==
    /\ pc = "done"
    /\ Len(ids_to_mark_read) >= 2
    /\ ids_to_mark_read[1] \in log.mark_failed
    /\ ids_to_mark_read[2] \notin log.mark_failed
    /\ label[ids_to_mark_read[1]] = "UNREAD"
    /\ label[ids_to_mark_read[2]] = "READ"
    /\ StillAppended

----------------------------------------------------------------------------
\* C14 (one save, at the end): while a run is on its way the state has not been
\* saved and state.json is the file the run found; a run that reached the final
\* step has saved once, and the saved file carries the last_run of this run; a
\* run that aborted (configuration, authentication, listing, append) has not
\* saved at all.
C14_SavedOnceAtTheEnd ==
    /\ pc \in {"auth", "list", "fetch", "append", "mark", "finalize"} =>
        (log.saves = 0 /\ file = file0)
    /\ (pc = "done" /\ log.abort = "none") =>
        /\ log.saves = 1
        /\ file.kind = "json"
        /\ file.last_run = isoformat(now)
        /\ file = [kind |-> "json", processed_ids |-> state.processed_ids,
                   last_run |-> state.last_run]
    /\ (pc = "done" /\ log.abort # "none") =>
        (log.saves = 0 /\ file = file0)

\* the second run, in which a mark gave up, has saved once and replaced the
\* last_run of the first run by its own
C14_Witness ==
    /\ pc = "done"
    /\ log.mark_failed # {}
    /\ log.saves = 1
    /\ file0.last_run = isoformat(1)
    /\ file.last_run = isoformat(2)

----------------------------------------------------------------------------
\* C15 (nothing to append): a run whose listing succeeded and left no candidate
\* that fetched and passed the filter never is at the append or the mark step;
\* when it is over it has made no append call and no mark call, the processed-id
\* set on disk is the one it found, last_run is its own, the state was saved
\* once and it returned 0.
C15_EmptyBatchStillSaves ==
    /\ pc \in {"append", "mark"} => (rows # <<>> /\ ExpectedBatch # <<>>)
    /\ (pc = "done" /\ log.list_called /\ log.abort # "list" /\ ExpectedBatch = <<>>) =>
        /\ rows = <<>>
        /\ log.append_calls = 0 /\ log.appended = <<>>
        /\ log.mark_calls = {}
        /\ Persisted(file) = Persisted(file0)
        /\ file.kind = "json" /\ file.last_run = isoformat(now)
        /\ log.saves = 1
        /\ rc = 0 /\ log.abort = "none"

\* a run listed three ids, one processed before, one filtered out and one whose
\* fetch gave up, and is over with nothing appended
C15_Witness ==
    /\ pc = "done" /\ rc = 0
    /\ Len(unread_ids) = 3
    /\ Range(unread_ids) \cap Persisted(file0) # {}
    /\ log.filtered # {}
    /\ log.fetch_failed # {}
    /\ rows = <<>>
    /\ log.saves = 1

----------------------------------------------------------------------------
\* the run is at a call of a collaborator that is under @retry
AtCall == pc \in {"list", "fetch", "append", "mark"}

\* the step gives up on the call in progress: the failure reaches main()
GivesUp ==
    \/ log.abort = "none" /\ log'.abort \in {"list", "append"}
    \/ log'.fetch_failed # log.fetch_failed /\ log'.fetch_failed # {}
    \/ log'.mark_failed # log.mark_failed /\ log'.mark_failed # {}

\* a bound on the number of steps the run still has to take: three steps at most
\* for a call under @retry, one call per id left in the mark loop, one append,
\* and per id left in the fetch loop one fetch and one later mark
StepsLeft ==
    LET calls == stop_after_attempt
        marks == Len(ids_to_mark_read) - idx + 1
        fetches == Len(new_ids) - idx + 1
    IN  CASE pc = "idle" -> 0
          [] pc = "done" -> 1
          [] pc = "finalize" -> 2
          [] pc = "mark" -> 2 + calls * marks - attempt
          [] pc = "append" -> 2 + calls * (Len(ids_to_mark_read) + 1) - attempt
          [] pc = "fetch" -> 2 + calls * (Len(ids_to_mark_read) + 1 + 2 * fetches) - attempt
          [] pc = "list" -> 2 + calls * (2 + 2 * Cardinality(Msgs)) - attempt
          [] pc = "auth" -> 3 + calls * (2 + 2 * Cardinality(Msgs))

\* C16 (bounded retries, termination): a call of a collaborator never has more
\* than two failed attempts behind it while it is in progress; a step taken at a
\* call either is a failed attempt that will be retried (one more failed attempt,
\* same call) or ends the call (the run moves on, by success or by giving up, and
\* the count starts again); a call is given up only at its third failed attempt;
\* and every run ends: the number StepsLeft is a natural number, zero exactly
\* between runs, that every step of a run makes smaller, whether the step is a
\* success or a failure.
C16_BoundedRetriesTerminate ==
    /\ [](attempt \in 0..2)
    /\ [](~AtCall => attempt = 0)
    /\ [][AtCall =>
            \/ attempt' = attempt + 1 /\ UNCHANGED <<pc, idx, rc, rows, ids_to_mark_read,
                                                     sheet, label, file>> /\ ~GivesUp
            \/ attempt' = 0 /\ <<pc, idx>>' # <<pc, idx>>]_vars
    /\ [][GivesUp => (AtCall /\ attempt = 2)]_vars
    /\ [](StepsLeft >= 0 /\ (StepsLeft = 0 <=> pc = "idle"))
    /\ [][pc # "idle" => StepsLeft' < StepsLeft]_vars

\* a mark was given up after two failed attempts of it, in a run in which the
\* listing, a fetch and the append had failed attempts too
C16_Witness ==
    /\ pc = "mark" /\ attempt = 2
    /\ log.fetch_failed # {}
    /\ log.append_calls = 3
    /\ log.appended # <<>>

----------------------------------------------------------------------------
\* the same letter, whatever the case
SameLetter(a, b) == a = b \/ {a, b} = {"t", "T"}

\* hay has needle in it, letter by letter, whatever the case
HasIgnoringCase(needle, hay) ==
    \E k \in 0..Len(hay) :
        /\ k + Len(needle) <= Len(hay)
        /\ \A j \in 1..Len(needle) : SameLetter(hay[k + j], needle[j])

\* C17 (subject filter): should_skip_subject returns True exactly when the filter
\* is a string of at least one character and the subject does not have it in it,
\* whatever the case of the letters; with the filter "" or None it returns False
\* for every subject; and for the subject None it returns what it returns for "".
C17_SubjectFilter ==
    call.made =>
        LET filter == config.SUBJECT_FILTER
            subject == call.subject
        IN  /\ (filter \in {<<>>, None}) => ~call.ret
            /\ (filter \notin {<<>>, None} /\ subject # None) =>
                    (call.ret <=> ~HasIgnoringCase(filter, subject))
            /\ (filter \notin {<<>>, None} /\ subject \in {<<>>, None}) => call.ret

\* the filter "Tx" was found in the subject "xtx", where it is written "tx"
C17_Witness ==
    /\ call.made
    /\ config.SUBJECT_FILTER = <<"T", "x">>
    /\ call.subject = <<"x", "t", "x">>
    /\ ~call.ret

----------------------------------------------------------------------------
\* C18 (the processed ids only grow): when a run that saved the state is over, the
\* state file is readable and its processed ids are the ids the run loaded
\* together with the ids of the rows it appended, no more and no less; and no
\* step of any run takes an id out of the state file or makes a readable state
\* file unreadable.
C18_ProcessedOnlyGrows ==
    /\ []((pc = "done" /\ log.saves > 0) =>
            /\ file.kind = "json"
            /\ load0.processed_ids \subseteq Persisted(file)
            /\ Persisted(file) = load0.processed_ids \cup IdsOf(log.appended))
    /\ [][/\ Persisted(file) \subseteq Persisted(file')
          /\ file.kind = "json" => file'.kind = "json"]_vars

\* a run that loaded processed ids of an earlier run has appended a batch of
\* other ids and saved
C18_Witness ==
    /\ pc = "done" /\ log.saves > 0
    /\ load0.processed_ids # {}
    /\ log.appended # <<>>
    /\ Persisted(file) # load0.processed_ids
    /\ Persisted(file) # IdsOf(log.appended)

----------------------------------------------------------------------------
\* C19 (what is marked read): every id mark_as_read has been attempted for in a
\* run is the id of a row that append_rows wrote earlier in that run, and is none
\* of the ids the run skipped at the filter, skipped at the fetch, or loaded as
\* processed; and the only change a run makes to the mailbox is to mark such an id
\* read, so a message that is unread and processed when a run starts is still
\* unread when the run is over.
C19_MarkOnlyWhatThisRunAppended ==
    /\ [](/\ log.mark_calls \subseteq IdsOf(log.appended)
          /\ log.mark_calls \cap log.filtered = {}
          /\ log.mark_calls \cap log.fetch_failed = {}
          /\ log.mark_calls \cap load0.processed_ids = {})
    /\ [][(pc # "idle" /\ label' # label) =>
            \E m \in IdsOf(log.appended) \ (log.filtered \cup log.fetch_failed
                                              \cup load0.processed_ids) :
                /\ pc = "mark"
                /\ m \in log'.mark_calls
                /\ label' = [label EXCEPT ![m] = "READ"]]_vars
    /\ [][\A m \in Msgs :
            (pc # "idle" /\ m \in Persisted(file0) /\ label[m] = "UNREAD") =>
                label'[m] = "UNREAD"]_vars

\* a run is over that listed a message still unread though processed by an
\* earlier run, skipped a message at the filter or the fetch, and marked a third
\* one read after appending it
C19_Witness ==
    /\ pc = "done"
    /\ \E m \in load0.processed_ids : m \in Range(unread_ids) /\ label[m] = "UNREAD"
    /\ log.filtered \cup log.fetch_failed # {}
    /\ \E m \in log.mark_calls : label[m] = "READ" /\ m \notin log.mark_failed

----------------------------------------------------------------------------
\* the messages still waiting: unread, passing the subject filter, with no row in
\* the sheet and not among the processed ids on disk
Waiting ==
    {m \in Msgs : /\ label[m] = "UNREAD"
                  /\ PassesFilter(m)
                  /\ m \notin IdsOf(sheet)
                  /\ m \notin Persisted(file)}

\* C20 (progress), as stated: a run in which the listing, every fetch, the append
\* and every mark succeeded does not end with nothing appended while a message is
\* still waiting.  A run that appends nothing leaves the mailbox, the sheet and the
\* processed ids as it found them (C15), so main() started again in the state that
\* run leaves lists the same page and ends the same way: where this fails, the
\* waiting message is appended by no later run.
C20_Progress_AsStated ==
    (pc = "done" /\ rc = 0 /\ log.fetch_failed = {} /\ log.mark_failed = {}) =>
        (Waiting = {} \/ log.appended # <<>>)

====
